---- MODULE Spec2Model ----
(***************************************************************************)
(* Model of pandas/core/ops/dispatch.py: the two dispatch predicates       *)
(* (should_extension_dispatch, should_series_dispatch), the extension      *)
(* bridge (dispatch_to_extension_op) and the ufunc bridge                  *)
(* (maybe_dispatch_ufunc_to_dunder_op).                                    *)
(*                                                                         *)
(* The module keeps no state between calls, so the state machine is a      *)
(* caller that issues one call at a time: `call` holds the function and    *)
(* its arguments, `ret` what the call did (its outcome and the calls it    *)
(* made on its collaborators), `pc` whether a call's result is pending.    *)
(* Values the functions only pass around (arrays, results of delegated     *)
(* operators) are symbolic terms.  The predicates imported from            *)
(* pandas.core.dtypes.common are not part of the file: every operand       *)
(* carries, as a field named after the predicate, the answer the           *)
(* predicate gives for it.                                                 *)
(***************************************************************************)
EXTENDS Integers, Sequences, FiniteSets, TLC

VARIABLES pc, call, ret

vars == <<pc, call, ret>>

\* Largest number of columns of a table handed to should_series_dispatch.
MaxCols == 2

-----------------------------------------------------------------------------
(* Outcomes of a call: a returned value or a raised exception.             *)

Return(v) == [kind |-> "return", value |-> v]

Raise(e) == [kind |-> "raise", value |-> e]

\* Python values are records tagged with their kind, so that any two values
\* of the model can be compared.
Bool(b) == [bool |-> b]

\* The builtin singleton returned, never raised, by the ufunc bridge.
NotImplemented == [const |-> "NotImplemented"]

None == [const |-> "None"]

-----------------------------------------------------------------------------
(* dtypes, each with the answers of is_extension_array_dtype,              *)
(* is_datetime64_dtype, is_timedelta64_dtype, is_integer_dtype and         *)
(* is_object_dtype for it.                                                 *)

DType(n, ext, dt, td, int, obj) == [name |-> n, is_extension_array_dtype |-> ext, is_datetime64_dtype |-> dt, is_timedelta64_dtype |-> td, is_integer_dtype |-> int, is_object_dtype |-> obj]

int64 == DType("int64", FALSE, FALSE, FALSE, TRUE, FALSE)

float64 == DType("float64", FALSE, FALSE, FALSE, FALSE, FALSE)

object == DType("object", FALSE, FALSE, FALSE, FALSE, TRUE)

datetime64 == DType("datetime64[ns]", FALSE, TRUE, FALSE, FALSE, FALSE)

timedelta64 == DType("timedelta64[ns]", FALSE, FALSE, TRUE, FALSE, FALSE)

datetime64tz == DType("datetime64[ns, UTC]", TRUE, FALSE, FALSE, FALSE, FALSE)

category == DType("category", TRUE, FALSE, FALSE, FALSE, FALSE)

Int64 == DType("Int64", TRUE, FALSE, FALSE, TRUE, FALSE)

DTypes == {int64, float64, object, datetime64, timedelta64, datetime64tz, category, Int64}

-----------------------------------------------------------------------------
(* should_extension_dispatch                                               *)

\* Left operands: a Series of each dtype.
Lefts == {[dtype |-> d] : d \in DTypes}

\* Right operands, with the answers of is_scalar(right) and of
\* is_extension_array_dtype(right); the latter also accepts a dtype name
\* given as a string scalar ("category", "Int64").
Right(n, s, e) == [name |-> n, is_scalar |-> s, is_extension_array_dtype |-> e]

Rights == {Right("5", TRUE, FALSE), Right("'category'", TRUE, TRUE), Right("'Int64'", TRUE, TRUE), Right("'foo'", TRUE, FALSE), Right("ndarray[int64]", FALSE, FALSE), Right("list", FALSE, FALSE), Right("Categorical", FALSE, TRUE), Right("IntegerArray", FALSE, TRUE), Right("Series[datetime64tz]", FALSE, TRUE)}

\* Variant: the right operand's dtype decides even when it is a scalar.
should_extension_dispatch_any_right(left, right) ==
    IF \/ left.dtype.is_extension_array_dtype
       \/ left.dtype.is_datetime64_dtype
       \/ left.dtype.is_timedelta64_dtype
    THEN TRUE
    ELSE IF right.is_extension_array_dtype
    THEN TRUE
    ELSE FALSE

should_extension_dispatch(left, right) ==
    IF \/ left.dtype.is_extension_array_dtype
       \/ left.dtype.is_datetime64_dtype
       \/ left.dtype.is_timedelta64_dtype
    THEN TRUE
    ELSE IF ~right.is_scalar /\ right.is_extension_array_dtype
    THEN TRUE
    ELSE FALSE

-----------------------------------------------------------------------------
(* should_series_dispatch                                                  *)

IndexError == [cls |-> "IndexError", msg |-> "single positional indexer is out-of-bounds"]

\* obj.dtypes.iloc[i], Python's 0-based position i.
iloc(dtypes, i) == IF i + 1 \in DOMAIN dtypes THEN Return(dtypes[i + 1]) ELSE Raise(IndexError)

\* len(obj.columns): a table has one dtype per column.
len_columns(t) == Len(t.dtypes)

FrameDTypes == {int64, object, datetime64, timedelta64, category}

SeqsUpTo(S, n) == UNION {[1..k -> S] : k \in 0..n}

\* A DataFrame by its column dtypes.  _is_mixed_type is the table's own
\* attribute: it holds when the columns sit in more than one block, that is
\* when two columns differ in dtype or several columns are of an extension
\* dtype; a table of no column or one column is never mixed.
Table(dtypes) ==
    [dtypes |-> dtypes,
     _is_mixed_type |-> \/ Cardinality({dtypes[i] : i \in DOMAIN dtypes}) > 1
                        \/ /\ Len(dtypes) > 1
                           /\ \E i \in DOMAIN dtypes : dtypes[i].is_extension_array_dtype]

Tables == {Table(s) : s \in SeqsUpTo(FrameDTypes, MaxCols)}

FrameOps == {[__name__ |-> "add"], [__name__ |-> "eq"]}

\* Variant: datetime64 against object dispatches in either operand order.
series_dispatch_dtype_rules_symmetric(left, right) ==
    LET l == iloc(left.dtypes, 0)
        r == iloc(right.dtypes, 0)
        ldtype == l.value
        rdtype == r.value
    IN  IF l.kind = "raise"
        THEN [outcome |-> l, reads |-> <<"left">>]
        ELSE IF r.kind = "raise"
        THEN [outcome |-> r, reads |-> <<"left", "right">>]
        ELSE IF \/ ldtype.is_timedelta64_dtype /\ rdtype.is_integer_dtype
                \/ rdtype.is_timedelta64_dtype /\ ldtype.is_integer_dtype
        THEN [outcome |-> Return(Bool(TRUE)), reads |-> <<"left", "right">>]
        ELSE IF \/ ldtype.is_datetime64_dtype /\ rdtype.is_object_dtype
                \/ rdtype.is_datetime64_dtype /\ ldtype.is_object_dtype
        THEN [outcome |-> Return(Bool(TRUE)), reads |-> <<"left", "right">>]
        ELSE [outcome |-> Return(Bool(FALSE)), reads |-> <<"left", "right">>]

\* `reads` lists the tables whose dtypes.iloc[0] the call evaluated.
series_dispatch_dtype_rules(left, right) ==
    LET l == iloc(left.dtypes, 0)
        r == iloc(right.dtypes, 0)
        ldtype == l.value
        rdtype == r.value
    IN  IF l.kind = "raise"
        THEN [outcome |-> l, reads |-> <<"left">>]
        ELSE IF r.kind = "raise"
        THEN [outcome |-> r, reads |-> <<"left", "right">>]
        ELSE IF \/ ldtype.is_timedelta64_dtype /\ rdtype.is_integer_dtype
                \/ rdtype.is_timedelta64_dtype /\ ldtype.is_integer_dtype
        THEN [outcome |-> Return(Bool(TRUE)), reads |-> <<"left", "right">>]
        ELSE IF ldtype.is_datetime64_dtype /\ rdtype.is_object_dtype
        THEN [outcome |-> Return(Bool(TRUE)), reads |-> <<"left", "right">>]
        ELSE [outcome |-> Return(Bool(FALSE)), reads |-> <<"left", "right">>]

\* Variant: the empty-table guard asks for both tables to be empty.
should_series_dispatch_both_empty(left, right, op) ==
    IF left._is_mixed_type \/ right._is_mixed_type
    THEN [outcome |-> Return(Bool(TRUE)), reads |-> <<>>]
    ELSE IF len_columns(left) = 0 /\ len_columns(right) = 0
    THEN [outcome |-> Return(Bool(FALSE)), reads |-> <<>>]
    ELSE series_dispatch_dtype_rules(left, right)

should_series_dispatch(left, right, op) ==
    IF left._is_mixed_type \/ right._is_mixed_type
    THEN [outcome |-> Return(Bool(TRUE)), reads |-> <<>>]
    ELSE IF len_columns(left) = 0 \/ len_columns(right) = 0
    THEN [outcome |-> Return(Bool(FALSE)), reads |-> <<>>]
    ELSE series_dispatch_dtype_rules(left, right)

-----------------------------------------------------------------------------
(* dispatch_to_extension_op                                                *)

\* Arrays by class and dtype.kind.
Arr(c, k) == [cls |-> c, kind |-> k]

ExtLefts == {Arr("ndarray", "M"), Arr("ndarray", "m"), Arr("ndarray", "i"), Arr("ndarray", "O"), Arr("DatetimeArray", "M"), Arr("TimedeltaArray", "m"), Arr("IntegerArray", "i"), Arr("Categorical", "O")}

ExtRights == {[name |-> "5"], [name |-> "Timedelta('1D')"], [name |-> "ndarray[int64]"]}

ExcClasses == {"NullFrequencyError", "ValueError", "TypeError", "ZeroDivisionError"}

\* A binary operator: its __name__ and what a call of it does on the operands
\* at hand (raises an exception of class `raises`, or returns when `raises`
\* is "nothing").
BinOps == [__name__ : {"add", "sub", "radd"}, raises : {"nothing"} \cup ExcClasses]

\* pandas.core.construction.array(left): the converted array, as a term.
array(left) == [array_of |-> left]

\* op(left, right)
apply_op(op, left, right) ==
    IF op.raises = "nothing"
    THEN Return([result_of |-> op.__name__, left |-> left, right |-> right])
    ELSE Raise([cls |-> op.raises, msg |-> "raised by op"])

\* isinstance(left, np.ndarray)
is_ndarray(left) == left.cls = "ndarray"

\* Variant: every array of a temporal kind is converted.
needs_cast_any_class(left) == left.kind \in {"m", "M"}

\* left.dtype.kind in "mM" and isinstance(left, np.ndarray)
needs_cast(left) == left.kind \in {"m", "M"} /\ is_ndarray(left)

\* Variant: a bare except.
except_any(e) == TRUE

\* except NullFrequencyError
except_NullFrequencyError(e) == e.cls = "NullFrequencyError"

\* `op_calls` lists the calls of op, each with the arguments it received.
dispatch_to_extension_op(op, left, right, keep_null_freq) ==
    LET left1 == IF needs_cast(left) THEN array(left) ELSE left
        res_values == apply_op(op, left1, right)
        op_calls == <<[left |-> left1, right |-> right]>>
    IN  IF res_values.kind = "raise" /\ except_NullFrequencyError(res_values.value)
        THEN IF keep_null_freq
             THEN [outcome |-> res_values, op_calls |-> op_calls]
             ELSE [outcome |-> Raise([cls |-> "TypeError", msg |-> "incompatible type for a datetime/timedelta operation [" \o op.__name__ \o "]"]), op_calls |-> op_calls]
        ELSE [outcome |-> res_values, op_calls |-> op_calls]

-----------------------------------------------------------------------------
(* maybe_dispatch_ufunc_to_dunder_op                                       *)

special == {"add", "sub", "mul", "pow", "mod", "floordiv", "truediv", "divmod", "eq", "ne", "lt", "gt", "le", "ge", "remainder", "matmul"}

\* Variant: "divide" resolves to "truediv".
aliases_divide_truediv ==
    [k \in {"subtract", "multiply", "floor_divide", "true_divide", "power", "remainder", "divide", "equal", "not_equal", "less", "less_equal", "greater", "greater_equal"} |->
        CASE k = "subtract" -> "sub"
          [] k = "multiply" -> "mul"
          [] k = "floor_divide" -> "floordiv"
          [] k = "true_divide" -> "truediv"
          [] k = "power" -> "pow"
          [] k = "remainder" -> "mod"
          [] k = "divide" -> "truediv"
          [] k = "equal" -> "eq"
          [] k = "not_equal" -> "ne"
          [] k = "less" -> "lt"
          [] k = "less_equal" -> "le"
          [] k = "greater" -> "gt"
          [] k = "greater_equal" -> "ge"]

aliases ==
    [k \in {"subtract", "multiply", "floor_divide", "true_divide", "power", "remainder", "divide", "equal", "not_equal", "less", "less_equal", "greater", "greater_equal"} |->
        CASE k = "subtract" -> "sub"
          [] k = "multiply" -> "mul"
          [] k = "floor_divide" -> "floordiv"
          [] k = "true_divide" -> "truediv"
          [] k = "power" -> "pow"
          [] k = "remainder" -> "mod"
          [] k = "divide" -> "div"
          [] k = "equal" -> "eq"
          [] k = "not_equal" -> "ne"
          [] k = "less" -> "lt"
          [] k = "less_equal" -> "le"
          [] k = "greater" -> "gt"
          [] k = "greater_equal" -> "ge"]

\* Variant: the comparison methods are not swapped.
flipped_unswapped == [k \in {"lt", "le", "gt", "ge", "eq", "ne"} |-> "__" \o k \o "__"]

flipped ==
    [k \in {"lt", "le", "gt", "ge", "eq", "ne"} |->
        CASE k = "lt" -> "__gt__"
          [] k = "le" -> "__ge__"
          [] k = "gt" -> "__lt__"
          [] k = "ge" -> "__le__"
          [] k = "eq" -> "__eq__"
          [] k = "ne" -> "__ne__"]

\* dict.get(key, default)
dict_get(d, key, default) == IF key \in DOMAIN d THEN d[key] ELSE default

\* kwargs.get(key), kwargs being a set of <<key, value>> pairs with one pair
\* at most for a key; a missing key gives None.
kwargs_get(kwargs, key) == IF \E p \in kwargs : p[1] = key THEN (CHOOSE p \in kwargs : p[1] = key)[2] ELSE None

\* Classes of the operands, each with the classes an instance of it is an
\* instance of: SubArray is a subclass of MyArray.
Mro ==
    [c \in {"MyArray", "SubArray", "ndarray", "int"} |->
        CASE c = "MyArray" -> {"MyArray"}
          [] c = "SubArray" -> {"SubArray", "MyArray"}
          [] c = "ndarray" -> {"ndarray"}
          [] c = "int" -> {"int"}]

\* type(obj)
type(obj) == obj.cls

\* isinstance(obj, cls)
isinstance(obj, cls) == cls \in Mro[type(obj)]

Obj(i, c) == [id |-> i, cls |-> c]

\* Two arrays of class MyArray, one of its subclass, a native array, a scalar.
Objects == {Obj("a1", "MyArray"), Obj("a2", "MyArray"), Obj("s1", "SubArray"), Obj("n1", "ndarray"), Obj("x", "int")}

\* The arrays whose __array_ufunc__ calls the bridge.
Selves == {o \in Objects : type(o) \in {"MyArray", "SubArray"}}

Modes == {"__call__", "reduce", "accumulate", "reduceat", "outer", "at"}

\* ufunc.__name__: every alias, every supported name, and names in neither.
UfuncNames == DOMAIN aliases \cup special \cup {"div", "sqrt", "logical_and"}

\* **kwargs: no `out`, out=None, out=(buffer,).
KwargsSet == {{}, {<<"out", None>>}, {<<"out", [buffer |-> "b1"]>>}}

\* The comparison methods every Python object has.
ObjectDunder == {"__lt__", "__le__", "__gt__", "__ge__", "__eq__", "__ne__"}

\* Forward arithmetic methods, without their reflected counterparts.
ForwardArithmetic == {"__add__", "__sub__", "__mul__"}

\* The forward methods of every operator, the reflected methods of the
\* arithmetic operators (comparisons have none), __div__/__rdiv__ included.
AllDunder == {"__add__", "__sub__", "__mul__", "__pow__", "__mod__", "__floordiv__", "__truediv__", "__divmod__", "__eq__", "__ne__", "__lt__", "__gt__", "__le__", "__ge__", "__matmul__", "__div__",
              "__radd__", "__rsub__", "__rmul__", "__rpow__", "__rmod__", "__rfloordiv__", "__rtruediv__", "__rdivmod__", "__rmatmul__", "__rdiv__"}

\* What getattr finds on self: the methods of object alone, forward
\* arithmetic without the reflected methods, or every operator method.
AttrSets == {ObjectDunder, ObjectDunder \cup ForwardArithmetic, AllDunder}

\* def not_implemented(*args, **kwargs): return NotImplemented
not_implemented(arg) == Return(NotImplemented)

\* The local function not_implemented, as a value passed to getattr.
not_implemented_fn == [kind |-> "function", name |-> "not_implemented"]

\* Variant: getattr(self, name), which raises when the name is absent.
getattr_no_default(attrs, name, default) == IF name \in attrs THEN [kind |-> "method", name |-> name] ELSE [kind |-> "AttributeError", name |-> name]

\* getattr(self, name, default): the bound method, or the default.
getattr(attrs, name, default) == IF name \in attrs THEN [kind |-> "method", name |-> name] ELSE default

\* f(arg) for what getattr returned: a bound method of self is called (its
\* result is a term), the default is not_implemented; a lookup that failed
\* raises.  `lookups` lists the names looked up on self, `invoked` the
\* methods of self that were called, with their argument.
call_attr(self, f, name, arg) ==
    IF f.kind = "function"
    THEN [outcome |-> not_implemented(arg), lookups |-> <<name>>, invoked |-> <<>>]
    ELSE IF f.kind = "method"
    THEN [outcome |-> Return([result_of |-> f.name, self |-> self, arg |-> arg]), lookups |-> <<name>>, invoked |-> <<[name |-> f.name, arg |-> arg]>>]
    ELSE [outcome |-> Raise([cls |-> "AttributeError", msg |-> name]), lookups |-> <<name>>, invoked |-> <<>>]

\* Variant: the `out` keyword is not looked at.
gate_ignoring_out(method, op_name, kwargs) == method = "__call__" /\ op_name \in special

\* method == "__call__" and op_name in special and kwargs.get("out") is None
gate(method, op_name, kwargs) ==
    /\ method = "__call__"
    /\ op_name \in special
    /\ kwargs_get(kwargs, "out") = None

\* `attrs` is the set of method names defined on self; inputs[0] and
\* inputs[1] of the source are inputs[1] and inputs[2] here.
maybe_dispatch_ufunc_to_dunder_op(self, attrs, ufunc, method, inputs, kwargs) ==
    LET op_name0 == ufunc.__name__
        op_name == dict_get(aliases, op_name0, op_name0)
    IN  IF gate(method, op_name, kwargs)
        THEN IF isinstance(inputs[1], type(self))
             THEN LET name == "__" \o op_name \o "__"
                  IN  call_attr(self, getattr(attrs, name, not_implemented_fn), name, inputs[2])
             ELSE LET name == dict_get(flipped, op_name, "__r" \o op_name \o "__")
                  IN  call_attr(self, getattr(attrs, name, not_implemented_fn), name, inputs[1])
        ELSE [outcome |-> Return(NotImplemented), lookups |-> <<>>, invoked |-> <<>>]

-----------------------------------------------------------------------------
(* The caller.                                                             *)

Init ==
    /\ pc = "idle"
    /\ call = [fn |-> "none"]
    /\ ret = [outcome |-> Return(None)]

CallShouldExtensionDispatch ==
    /\ pc = "idle"
    /\ \E left \in Lefts, right \in Rights :
        /\ call' = [fn |-> "should_extension_dispatch", left |-> left, right |-> right]
        /\ ret' = [outcome |-> Return(Bool(should_extension_dispatch(left, right)))]
    /\ pc' = "returned"

CallShouldSeriesDispatch ==
    /\ pc = "idle"
    /\ \E left \in Tables, right \in Tables, op \in FrameOps :
        /\ call' = [fn |-> "should_series_dispatch", left |-> left, right |-> right, op |-> op]
        /\ ret' = should_series_dispatch(left, right, op)
    /\ pc' = "returned"

CallDispatchToExtensionOp ==
    /\ pc = "idle"
    /\ \E op \in BinOps, left \in ExtLefts, right \in ExtRights, keep_null_freq \in BOOLEAN :
        /\ call' = [fn |-> "dispatch_to_extension_op", op |-> op, left |-> left, right |-> right, keep_null_freq |-> keep_null_freq]
        /\ ret' = dispatch_to_extension_op(op, left, right, keep_null_freq)
    /\ pc' = "returned"

CallMaybeDispatchUfunc ==
    /\ pc = "idle"
    /\ \E self \in Selves, attrs \in AttrSets, name \in UfuncNames, method \in Modes, inputs \in Objects \X Objects, kwargs \in KwargsSet :
        /\ call' = [fn |-> "maybe_dispatch_ufunc_to_dunder_op", self |-> self, attrs |-> attrs, ufunc |-> [__name__ |-> name], method |-> method, inputs |-> inputs, kwargs |-> kwargs]
        /\ ret' = maybe_dispatch_ufunc_to_dunder_op(self, attrs, [__name__ |-> name], method, inputs, kwargs)
    /\ pc' = "returned"

\* The caller takes the result; the module keeps nothing of the call.
Done ==
    /\ pc = "returned"
    /\ pc' = "idle"
    /\ call' = [fn |-> "none"]
    /\ ret' = [outcome |-> Return(None)]

Next ==
    \/ CallShouldExtensionDispatch
    \/ CallShouldSeriesDispatch
    \/ CallDispatchToExtensionOp
    \/ CallMaybeDispatchUfunc
    \/ Done

Spec == Init /\ [][Next]_vars

-----------------------------------------------------------------------------
(* Properties.  Each is a predicate on the state after a call returned.    *)

Returned(fn) == pc = "returned" /\ call.fn = fn

\* The operator names the ufunc bridge is documented to support.
SupportedOperators == {"add", "sub", "mul", "pow", "mod", "floordiv", "truediv", "divmod", "eq", "ne", "lt", "gt", "le", "ge", "remainder", "matmul"}

Comparisons == {"lt", "le", "gt", "ge", "eq", "ne"}

\* The alias-resolved operator name of the ufunc of the call.
ResolvedName == dict_get(aliases, call.ufunc.__name__, call.ufunc.__name__)

\* kwargs holds an `out` that is not None.
HasOut == \E p \in call.kwargs : p[1] = "out" /\ p[2] # None

GatePasses == call.method = "__call__" /\ ~HasOut /\ ResolvedName \in SupportedOperators

NotHandled == ret.outcome = Return(NotImplemented) /\ ret.lookups = <<>> /\ ret.invoked = <<>>

\* C1: whenever the mode is not "__call__", or kwargs holds a non-null
\* `out`, or the alias-resolved name is not a supported operator, the ufunc
\* bridge returns NotImplemented and neither looks up nor invokes a method
\* of self.
C1_GateFailsNotHandled ==
    Returned("maybe_dispatch_ufunc_to_dunder_op") =>
        ((call.method # "__call__" \/ HasOut \/ ResolvedName \notin SupportedOperators) => NotHandled)

\* A plain call of a supported operator on a self that defines it, refused
\* only because of out=(buffer,).
C1_Witness ==
    /\ Returned("maybe_dispatch_ufunc_to_dunder_op")
    /\ call.method = "__call__"
    /\ call.ufunc.__name__ = "add"
    /\ "__add__" \in call.attrs
    /\ HasOut
    /\ NotHandled

\* The reflected method name the claim gives for an operator name.
ReflectedMethod(n) ==
    CASE n = "lt" -> "__gt__"
      [] n = "gt" -> "__lt__"
      [] n = "le" -> "__ge__"
      [] n = "ge" -> "__le__"
      [] n = "eq" -> "__eq__"
      [] n = "ne" -> "__ne__"
      [] OTHER -> "__r" \o n \o "__"

\* The lookup and the invocation of method m of self with argument arg: the
\* method is invoked when self defines it.
Dispatched(m, arg) ==
    /\ ret.lookups = <<m>>
    /\ ret.invoked = IF m \in call.attrs THEN <<[name |-> m, arg |-> arg]>> ELSE <<>>

\* Method m of self, when self defines it, is the method invoked, with
\* argument arg.
Invokes(m, arg) == m \in call.attrs => ret.invoked = <<[name |-> m, arg |-> arg]>>

\* The swap table is an involution on the comparison operators.
FlippedIsInvolution ==
    \A c \in Comparisons : \E d \in Comparisons :
        /\ flipped[c] = "__" \o d \o "__"
        /\ flipped[d] = "__" \o c \o "__"

C3_OutcomeOfOp ==
    Returned("dispatch_to_extension_op") =>
        LET raised == [cls |-> call.op.raises, msg |-> "raised by op"]
        IN  /\ call.op.raises = "nothing" =>
                /\ ret.outcome.kind = "return"
                /\ ret.outcome.value.result_of = call.op.__name__
            /\ (call.op.raises = "NullFrequencyError" /\ ~call.keep_null_freq) =>
                /\ ret.outcome.kind = "raise"
                /\ ret.outcome.value.cls = "TypeError"
                /\ ret.outcome.value.msg = "incompatible type for a datetime/timedelta operation [" \o call.op.__name__ \o "]"
            /\ (call.op.raises = "NullFrequencyError" /\ call.keep_null_freq) =>
                ret.outcome = Raise(raised)
            /\ call.op.raises \notin {"nothing", "NullFrequencyError"} =>
                ret.outcome = Raise(raised)

\* add(TimedeltaArray, 5) raising NullFrequencyError, translated.
C3_Witness ==
    /\ Returned("dispatch_to_extension_op")
    /\ call.op = [__name__ |-> "add", raises |-> "NullFrequencyError"]
    /\ call.left = Arr("TimedeltaArray", "m")
    /\ call.right = [name |-> "5"]
    /\ ~call.keep_null_freq
    /\ ret.outcome = Raise([cls |-> "TypeError", msg |-> "incompatible type for a datetime/timedelta operation [add]"])

\* left's dtype is extension, datetime64 or timedelta64.
LeftDispatches ==
    \/ call.left.dtype.is_extension_array_dtype
    \/ call.left.dtype.is_datetime64_dtype
    \/ call.left.dtype.is_timedelta64_dtype

\* C4: should_extension_dispatch is true for every right when left's dtype
\* is extension, datetime64 or timedelta64; for any other left it is false
\* for every scalar right, true for every non-scalar right of extension
\* dtype and false for every other right.
C4_ExtensionDispatch ==
    Returned("should_extension_dispatch") =>
        /\ LeftDispatches => ret.outcome = Return(Bool(TRUE))
        /\ (~LeftDispatches /\ call.right.is_scalar) => ret.outcome = Return(Bool(FALSE))
        /\ (~LeftDispatches /\ ~call.right.is_scalar) => ret.outcome = Return(Bool(call.right.is_extension_array_dtype))

\* An int64 Series against the scalar 'category'.
C4_Witness ==
    /\ Returned("should_extension_dispatch")
    /\ call.left.dtype = int64
    /\ call.right = Right("'category'", TRUE, TRUE)
    /\ ret.outcome = Return(Bool(FALSE))

EitherMixed == call.left._is_mixed_type \/ call.right._is_mixed_type

EitherEmpty == Len(call.left.dtypes) = 0 \/ Len(call.right.dtypes) = 0

\* The first-column dtype rules of the claim, for tables with a first column.
FirstColumnRules ==
    LET l == call.left.dtypes[1]
        r == call.right.dtypes[1]
    IN  \/ l.is_timedelta64_dtype /\ r.is_integer_dtype
        \/ r.is_timedelta64_dtype /\ l.is_integer_dtype
        \/ l.is_datetime64_dtype /\ r.is_object_dtype

\* C5: should_series_dispatch is true if either table is mixed; else false
\* if either table has no column; else true for timedelta64 against integer
\* first columns in either order; else true for a datetime64 left against an
\* object right; else false.
C5_OrderedRule ==
    Returned("should_series_dispatch") =>
        ret.outcome = Return(Bool(IF EitherMixed THEN TRUE ELSE IF EitherEmpty THEN FALSE ELSE FirstColumnRules))

\* A mixed table whose first-column dtypes would say false, and the reverse
\* order of the datetime64/object rule.
C5_Witness ==
    /\ Returned("should_series_dispatch")
    /\ call.left = Table(<<object, datetime64>>)
    /\ call.right = Table(<<datetime64>>)
    /\ ret.outcome = Return(Bool(TRUE))

\* C6 as stated: whenever either table has no column the result is false and
\* no first-column dtype of an empty table is read.
C6_EmptyAlwaysFalse ==
    (Returned("should_series_dispatch") /\ EitherEmpty) =>
        /\ ret.outcome = Return(Bool(FALSE))
        /\ ret.reads = <<>>

\* C6, amended: whenever either table has no column and neither table is
\* mixed the result is false; whenever either table has no column no
\* first-column dtype is read and nothing is raised (the result is then true
\* exactly when the other table is mixed).
C6_EmptyFalseUnlessMixed ==
    (Returned("should_series_dispatch") /\ EitherEmpty) =>
        /\ ~EitherMixed => ret.outcome = Return(Bool(FALSE))
        /\ ret.outcome = Return(Bool(EitherMixed))
        /\ ret.reads = <<>>

\* An empty left table against a one-column right table.
C6_Witness ==
    /\ Returned("should_series_dispatch")
    /\ call.left = Table(<<>>)
    /\ call.right = Table(<<timedelta64>>)
    /\ ret.outcome = Return(Bool(FALSE))
    /\ ret.reads = <<>>

\* C7: when the gate passes and the resolved method is not defined on self,
\* the bridge returns NotImplemented, raises nothing and invokes nothing.
C7_AbsentMethodNotHandled ==
    (Returned("maybe_dispatch_ufunc_to_dunder_op") /\ GatePasses) =>
        /\ Len(ret.lookups) = 1
        /\ ret.lookups[1] \notin call.attrs =>
            /\ ret.outcome = Return(NotImplemented)
            /\ ret.invoked = <<>>

\* add(n1, a1) seen by a self without __radd__.
C7_Witness ==
    /\ Returned("maybe_dispatch_ufunc_to_dunder_op")
    /\ GatePasses
    /\ call.ufunc.__name__ = "add"
    /\ call.self = Obj("a1", "MyArray")
    /\ call.inputs = <<Obj("n1", "ndarray"), Obj("a1", "MyArray")>>
    /\ ret.lookups = <<"__radd__">>
    /\ "__radd__" \notin call.attrs
    /\ "__add__" \in call.attrs
    /\ ret.outcome = Return(NotImplemented)

\* C8: op is called exactly once, with right as given, and with left
\* converted by array() exactly when left is an ndarray of kind "M" or "m".
C8_CastOnlyNativeTemporal ==
    Returned("dispatch_to_extension_op") =>
        /\ Len(ret.op_calls) = 1
        /\ ret.op_calls[1].right = call.right
        /\ ret.op_calls[1].left =
              IF call.left.cls = "ndarray" /\ call.left.kind \in {"M", "m"}
              THEN [array_of |-> call.left]
              ELSE call.left

\* A datetime64 ndarray, converted before op is called.
C8_Witness ==
    /\ Returned("dispatch_to_extension_op")
    /\ call.left = Arr("ndarray", "M")
    /\ ret.op_calls = <<[left |-> [array_of |-> Arr("ndarray", "M")], right |-> call.right]>>

\* C9: a ufunc named "divide" is never handled, whatever the mode, inputs
\* and kwargs, and no method of self is looked up or invoked; every alias
\* other than "divide" resolves to a supported operator.
C9_DivideNotHandled ==
    /\ \A k \in DOMAIN aliases \ {"divide"} : aliases[k] \in SupportedOperators
    /\ (Returned("maybe_dispatch_ufunc_to_dunder_op") /\ call.ufunc.__name__ = "divide") => NotHandled

\* A plain call of divide(a1, a2) on a self defining __truediv__ and __div__.
C9_Witness ==
    /\ Returned("maybe_dispatch_ufunc_to_dunder_op")
    /\ call.ufunc.__name__ = "divide"
    /\ call.method = "__call__"
    /\ ~HasOut
    /\ {"__truediv__", "__rtruediv__", "__div__", "__rdiv__"} \subseteq call.attrs
    /\ call.self = Obj("a1", "MyArray")
    /\ call.inputs = <<Obj("a1", "MyArray"), Obj("a2", "MyArray")>>
    /\ NotHandled

\* C10: when the gate passes and self is exactly one of the two inputs, the
\* method invoked on self is the forward one if self is the first input and
\* the reflected one if it is the second, and its argument is the input that
\* is not self, so that the call computes inputs[0] OP inputs[1].
C10_ArgumentIsOtherInput ==
    (/\ Returned("maybe_dispatch_ufunc_to_dunder_op")
     /\ GatePasses
     /\ (call.inputs[1] = call.self) # (call.inputs[2] = call.self)) =>
        IF call.inputs[1] = call.self
        THEN Invokes("__" \o ResolvedName \o "__", call.inputs[2])
        ELSE Invokes(ReflectedMethod(ResolvedName), call.inputs[1])

====
